---- MODULE Spec2Model ----
(***************************************************************************)
(* QuakeSense edge firmware (src/unnamed/part_000): setup(), loop() and    *)
(* the helpers they call, as a state machine; the server side (feature     *)
(* extractor and classifier) that receives its events; the dashboard      *)
(* (src/unnamed/part_004) that polls the server; and the AI Training view  *)
(* (src/frontend/src/components/AITraining.jsx).                           *)
(*                                                                         *)
(* Units.  Times are milliseconds, as returned by millis().  Accelerations *)
(* are in 0.01 m/s^2 (so SHAKE_THRESHOLD_MS2 = 0.7 m/s^2 is 70), sound     *)
(* levels are raw ADC counts.                                              *)
(*                                                                         *)
(* Time.  millis() advances only where the code blocks: the 5 x delay(2)   *)
(* of readSoundLevel, the HTTP POST of sendEventToServer, the delay(1000)  *)
(* cooldown, the 2 x 40 x delay(20) of a recalibration and the closing     *)
(* delay(10).  All millis() reads between two blocking calls return the    *)
(* same value.                                                             *)
(***************************************************************************)
EXTENDS Integers, Sequences, FiniteSets, TLC

VARIABLES
    pc,                  \* "setup" | "loop" | "halt": where the sketch is
    now,                 \* millis() at the point the sketch has reached
    baselineX, baselineY, baselineZ, baselineSound,
    lastSoundSpikeTime,
    shakeStartTime, lastShakeSampleTime, potentialEarthquake,
    alarmEndTime, lastBlinkTime, blinkState, wasInAlarm,
    buzzer, red, green,  \* tone()/noTone() and the two LED pins
    \* what the last iteration of loop() did
    transition,          \* the branch of the Shake Detector (its Serial line)
    tDetect,             \* millis() seen by the Shake Detector
    tAlarm,              \* millis() seen by the Alarm Handler
    alarmBranch,         \* the branch of the Alarm Handler
    entry,               \* the globals as they were when it began
    horizontalAccel,     \* the horizontalAccel it computed
    readFailed,          \* lis.getEvent did not deliver a sample to it
    steps,               \* the calls it made, in order
    \* what the run has seen so far
    peakHorizontal,      \* the largest horizontalAccel of any iteration
    sessions,            \* number of shake sessions started (lines 152-157)
    spikeSeen,           \* some iteration has read a sound spike
    \* what sendEventToServer has done so far
    emitted,             \* number of calls
    lastEvent,           \* the SeismicEvent of the last call
    posts,               \* number of http.POST calls
    lastSend,            \* outcome of the last call
    lastPayload,         \* the JSON document of the last http.POST
    \* counters that bound a run
    iterations,          \* iterations of loop() (or of the halt loop) so far
    calCommands,         \* "cal" commands received so far
    holds,               \* input changes so far (SpecHold)
    \* the server process
    model,               \* the model artifact loaded at process start
    calls,               \* the requests being handled, by handler slot
    scratch,             \* the feature buffers of the classifier
    results,             \* the classifications returned so far
    served,              \* number of requests received so far
    \* the Dashboard component
    earthquakeData, stats, activeAlert, isConnected, lastUpdate,
    timers,              \* pending setTimeout callbacks
    fetches,             \* calls of fetchEarthquakeData so far
    \* the AITraining component
    unlabeledData,       \* its state earthquakeData: the events to label
    labeledData,
    labelEntry,          \* the handler that ran last and the lengths it found
    trainOps             \* handlers run so far

serverVars == <<model, calls, scratch, results, served>>

dashVars == <<earthquakeData, stats, activeAlert, isConnected, lastUpdate,
              timers, fetches>>

edgeVars == <<pc, now, baselineX, baselineY, baselineZ, baselineSound,
          lastSoundSpikeTime,
          shakeStartTime, lastShakeSampleTime, potentialEarthquake,
          alarmEndTime, lastBlinkTime, blinkState, wasInAlarm,
          buzzer, red, green,
          transition, tDetect, tAlarm, alarmBranch, entry, horizontalAccel,
          readFailed, steps, peakHorizontal, sessions, spikeSeen,
          emitted, lastEvent, posts, lastSend, lastPayload,
          iterations, calCommands, holds>>

trainVars == <<unlabeledData, labeledData, labelEntry, trainOps>>

vars == <<edgeVars, serverVars, dashVars, trainVars>>

----------------------------------------------------------------------------
(* Program constants *)

SHAKE_THRESHOLD_MS2 == 70
SOUND_THRESHOLD == 2000
MIN_SHAKE_DURATION == 250
SHAKE_RESET_TIMEOUT == 150
SOUND_CORRELATION_WINDOW == 1000
ALARM_DURATION == 10000
BLINK_INTERVAL == 300

SOUND_SAMPLES == 5         \* readSoundLevel: for(i<5)
SOUND_SAMPLE_DELAY == 2    \* readSoundLevel: delay(2)
COOLDOWN_DELAY == 1000     \* delay(1000) after a sound-correlated resolution
LOOP_DELAY == 10           \* delay(10) closing loop()
CAL_SAMPLES == 40          \* calibrateSensor / calibrateSoundSensor: for(i<40)
CAL_SAMPLE_DELAY == 20     \* calibrateSensor / calibrateSoundSensor: delay(20)
SETUP_SETTLE_DELAY == 1000 \* setup: delay(1000) before calibration
WIFI_ATTEMPT_DELAY == 500  \* connectWiFi: delay(500)
WIFI_MAX_ATTEMPTS == 10    \* connectWiFi: attempts < 10
HALT_DELAY == 100          \* setup: while (1) { delay(100); }

\* time readSoundLevel() blocks
SoundReadTime == SOUND_SAMPLES * SOUND_SAMPLE_DELAY

\* time from one iteration of loop() to the next when nothing else blocks
LoopPeriod == SoundReadTime + LOOP_DELAY

\* time one calibrateSensor() + calibrateSoundSensor() blocks
CalibrationTime == 2 * CAL_SAMPLES * CAL_SAMPLE_DELAY

----------------------------------------------------------------------------
(* Bounds of the model and the inputs it enumerates *)

MaxIterations == 16       \* iterations of loop() in a run of Spec
MaxHolds == 2             \* input changes in a run of SpecHold
MaxCalCommands == 1       \* "cal" commands in a run of SpecHold
MaxSlots == 2             \* requests the server handles at the same time
MaxServed == 3            \* requests in a run of SpecServer
MaxFetches == 3           \* polls in a run of SpecDashboard
MaxTimers == 2            \* pending setTimeout callbacks in SpecDashboard
MaxShakeTicks == 30       \* iterations of loop() in a run of SpecShake
MaxTrainOps == 9          \* handlers of the AITraining component in a run
MaxLiveTicks == 4         \* iterations that may open a session in SpecLive

Slots == 1..MaxSlots

\* raw accelerometer readings <<x, y, z>> of one lis.getEvent
RestReading  == <<0, 0, 980>>
EdgeReading  == <<70, 0, 980>>     \* horizontalAccel exactly at the threshold
ShakeReading == <<80, 60, 980>>    \* horizontalAccel = 1.0 m/s^2
JoltReading  == <<80, 60, 1080>>   \* the same with 1.0 m/s^2 on the z axis
Readings == {RestReading, EdgeReading, ShakeReading, JoltReading}

\* results of readSoundLevel (mean of 5 analogRead): quiet, exactly
\* baselineSound + SOUND_THRESHOLD for the quiet baseline, and loud
SoundLevels == {500, 500 + SOUND_THRESHOLD, 2600}

\* what the 40-sample means of a calibration can come to
CalAccelMeans == {RestReading}
CalSoundMeans == {500}

\* what the means of a recalibration on a "cal" command can come to: the
\* board has been tilted and the room has become quieter since boot
TiltedReading == <<10, 0, 975>>
RecalAccelMeans == {TiltedReading}
RecalSoundMeans == {400}

\* connectWiFi attempts made in setup()
BootAttempts == {2} \cap (0..WIFI_MAX_ATTEMPTS)

\* what sendEventToServer meets: WiFi.status() == WL_CONNECTED, the code
\* http.POST returns and the time it blocks
NoWifi == [wifi |-> FALSE, code |-> 0, latency |-> 0]
Networks == {NoWifi,
             [wifi |-> TRUE, code |-> 200, latency |-> 40],
             [wifi |-> TRUE, code |-> -1, latency |-> 5000]}

\* numbers of consecutive iterations of loop() that see the same inputs:
\* one, those of a session from its start to its resolution, and those of
\* a stretch longer than ALARM_DURATION; the inputs that are held
SessionHold == MIN_SHAKE_DURATION \div LoopPeriod + 2
LongHold == ALARM_DURATION \div LoopPeriod + LoopPeriod
HoldLengths == {1, SessionHold, LongHold}

\* time lis.getEvent and the Serial output add to an iteration of loop():
\* none, or enough for a slow loop to meet the two timeouts to the
\* millisecond, after this many iterations
SlowLag == 5
Lags == {0, SlowLag}
SlowPeriod == LoopPeriod + SlowLag
SessionEdgeHold == MIN_SHAKE_DURATION \div SlowPeriod + 1
ResetEdgeHold == SHAKE_RESET_TIMEOUT \div SlowPeriod
EdgeHolds == {SessionEdgeHold, ResetEdgeHold}
HoldReadings == {RestReading, ShakeReading}
HoldSounds == {500, 2600}

----------------------------------------------------------------------------
(* Pure helpers *)

Abs(x) == IF x < 0 THEN -x ELSE x

Max(a, b) == IF a > b THEN a ELSE b

\* sqrt(): the floor of the real root, by bisection of lo..hi
RECURSIVE SqrtIn(_, _, _)
SqrtIn(n, lo, hi) ==
    IF lo >= hi THEN lo
    ELSE LET mid == (lo + hi + 1) \div 2
         IN IF mid * mid <= n THEN SqrtIn(n, mid, hi) ELSE SqrtIn(n, lo, mid - 1)

\* the roots of the sums of squares the readings of the model lead to
SqrtTable == [n \in 0..40000 |-> SqrtIn(n, 0, 200)]

Sqrt(n) == IF n <= 40000 THEN SqrtTable[n] ELSE SqrtIn(n, 0, 2048)

\* millis() is an unsigned long of 32 bits.  A clock value u is kept as u
\* below 2^31 and as u - 2^32 from there on: the values before the counter
\* wraps are the negative ones, and a sum that passes 2^32 wraps by itself.
\* An unsigned difference that is 2^32 more than the difference of the two
\* representatives is beyond every timeout of the sketch; it is kept as
\* the largest value there is.
FarPast == 2147483647

\* unsigned difference of two millis() values
Elapsed(t, since) == IF t - since >= 0 THEN t - since ELSE FarPast

\* unsigned comparison of two millis() values
Below(a, b) == IF (a < 0) = (b < 0) THEN a < b ELSE b < 0

\* value of lastEvent / lastSend before the first call of sendEventToServer
NoEvent == [horizontalAccel |-> 0, totalAccel |-> 0, verticalAccel |-> 0,
            xAccel |-> 0, yAccel |-> 0, zAccel |-> 0, peakGroundAccel |-> 0,
            soundLevel |-> 0, isSoundCorrelated |-> FALSE, durationMs |-> 0,
            timestamp |-> 0]

NoSend == [posted |-> FALSE, code |-> 0]

\* value of lastPayload before the first http.POST
NoPayload == [device_id |-> ""]

----------------------------------------------------------------------------
(* Variants of the conditions and assignments that follow: what loop()     *)
(* would do had it been written otherwise.  The properties at the end of   *)
(* the module are tested against them.                                     *)

\* a sample at the threshold counts as shaking
AboveOrAtThreshold(h) == h >= SHAKE_THRESHOLD_MS2

\* the session resolves one iteration later
DurationReachedLate(t, start) == t - start > MIN_SHAKE_DURATION + LoopPeriod

\* the debounce reset comes one iteration later
ResetDueLate(t, last) == t - last > SHAKE_RESET_TIMEOUT + LoopPeriod

\* a failed POST is tried again
PostsWithRetry(net) == IF net.wifi THEN (IF net.code > 0 THEN 1 ELSE 2) ELSE 0

\* the terminal branches leave the session flag set
SessionLeftOpen(net) == [potentialEarthquake |-> TRUE, shakeStartTime |-> 0]

\* the Confirmed branch restarts the blink phase
BlinkPhaseRestarted(t, last, state) == <<t, FALSE>>

\* the halt loop is left after one turn
HaltLeaves == "loop"

\* a "cal" command replaces the acceleration baseline only
BaselineAccelOnly(g, in) ==
    [x |-> IF in.cal THEN in.calAccel[1] ELSE g.baselineX,
     y |-> IF in.cal THEN in.calAccel[2] ELSE g.baselineY,
     z |-> IF in.cal THEN in.calAccel[3] ELSE g.baselineZ,
     sound |-> g.baselineSound]

\* the peak is the total acceleration alone
PeakAccelTotal(total, horizontal) == total

\* the document carries the six fields of the first firmware only
PayloadSixFields(event) ==
    [horizontal_accel |-> event.horizontalAccel,
     total_accel |-> event.totalAccel,
     sound_level |-> event.soundLevel,
     sound_correlated |-> event.isSoundCorrelated,
     timestamp |-> event.timestamp,
     device_id |-> "ESP32_QuakeSense_001"]

\* no delay follows a sound-correlated resolution
NoCooldown(soundCorrelated) == 0

\* a POST that fails is repeated until the third attempt
SendTimeRepeated(net) ==
    IF net.wifi THEN (IF net.code > 0 THEN net.latency ELSE 3 * net.latency)
    ELSE 0

\* setup() returns with the baseline as declared, nothing measured
Uncalibrated(accel, snd) == [x |-> 0, y |-> 0, z |-> 0, sound |-> 0]

\* a sound level at the threshold counts as a spike
SoundSpikeAtThreshold(level, base) == level >= base + SOUND_THRESHOLD

\* a session resolves at the age of MIN_SHAKE_DURATION
DurationReachedAtMin(t, start) == t - start >= MIN_SHAKE_DURATION

\* a session is reset at a gap of SHAKE_RESET_TIMEOUT
ResetDueAtTimeout(t, last) == t - last >= SHAKE_RESET_TIMEOUT

\* the reset gap is measured from a sample time refreshed on every tick
ResetDueFromNow(t, last) == Elapsed(t, t) > SHAKE_RESET_TIMEOUT

\* the flip of the Alarm Handler leaves the green LED as it was
PinsGreenKept(g, a) ==
    IF ~a.active THEN [buzzer |-> FALSE, red |-> FALSE, green |-> TRUE]
    ELSE IF a.flips
         THEN [buzzer |-> a.blinkState, red |-> a.blinkState, green |-> g.green]
         ELSE [buzzer |-> g.buzzer, red |-> g.red, green |-> g.green]

\* the spike time is taken before readSoundLevel, not after it
SamplerSpikeBeforeRead(g, reading, sound) ==
    LET dynX == Abs(reading[1] - g.baselineX)
        dynY == Abs(reading[2] - g.baselineY)
        dynZ == Abs(reading[3] - g.baselineZ)
    IN [dynX |-> dynX, dynY |-> dynY, dynZ |-> dynZ,
        horizontalAccel |-> Sqrt(dynX * dynX + dynY * dynY),
        totalAccel |-> Sqrt(dynX * dynX + dynY * dynY + dynZ * dynZ),
        soundLevel |-> sound,
        t |-> g.now + SoundReadTime,
        spikeTime |-> IF sound > g.baselineSound + SOUND_THRESHOLD
                      THEN g.now ELSE g.lastSoundSpikeTime]

\* the sound-correlated branch arms the alarm too
EndTimeOnResolve(g, s, d) ==
    IF d.resolves THEN s.t + ALARM_DURATION ELSE g.alarmEndTime

----------------------------------------------------------------------------
(* The conditions and assignments of loop(), in source order *)

\* line 144: if (currentSoundLevel > (baselineSound + SOUND_THRESHOLD))
SoundSpike(level, base) == level > base + SOUND_THRESHOLD

\* line 149: if (horizontalAccel > SHAKE_THRESHOLD_MS2)
AboveThreshold(h) == h > SHAKE_THRESHOLD_MS2

\* line 159: millis() - shakeStartTime > MIN_SHAKE_DURATION
DurationReached(t, start) == Elapsed(t, start) > MIN_SHAKE_DURATION

\* lines 161-162: soundCorrelated = (millis() - lastSoundSpikeTime < WINDOW)
SoundCorrelated(t, spike) == Elapsed(t, spike) < SOUND_CORRELATION_WINDOW

\* line 166: max(totalAccel, horizontalAccel * 1.2f)
PeakAccel(total, horizontal) == Max(total, (horizontal * 12) \div 10)

\* line 193: alarmEndTime = millis() + ALARM_DURATION
ArmedUntil(t) == t + ALARM_DURATION

\* line 200: millis() - lastShakeSampleTime > SHAKE_RESET_TIMEOUT
ResetDue(t, last) == Elapsed(t, last) > SHAKE_RESET_TIMEOUT

\* line 209: if (millis() < alarmEndTime)
AlarmActive(t, endTime) == Below(t, endTime)

\* line 210: if (millis() - lastBlinkTime >= BLINK_INTERVAL)
BlinkDue(t, last) == Elapsed(t, last) >= BLINK_INTERVAL

\* sendEventToServer, lines 271-313: http.POST is called once when WiFi is
\* connected and not at all otherwise, whatever it returns
PostsMade(net) == IF net.wifi THEN 1 ELSE 0

\* sendEventToServer: the time the call blocks
SendTime(net) == IF net.wifi THEN net.latency ELSE 0

\* lines 185-187 / 194-196: the session flag and start time the terminal
\* branches leave, whatever sendEventToServer met
SessionAfterSend(net) == [potentialEarthquake |-> FALSE, shakeStartTime |-> 0]

\* line 188: delay(1000), on the sound-correlated branch only
CooldownTime(soundCorrelated) == IF soundCorrelated THEN COOLDOWN_DELAY ELSE 0

\* lines 189-197: the Confirmed branch assigns alarmEndTime only; the blink
\* phase <<lastBlinkTime, blinkState>> it leaves to the Alarm Handler
BlinkPhaseAfterConfirm(t, last, state) == <<last, state>>

----------------------------------------------------------------------------
(* The globals of the sketch as one record, so that loop() is a function   *)
(* from globals and inputs to globals                                      *)

Globals ==
    [now |-> now,
     baselineX |-> baselineX, baselineY |-> baselineY,
     baselineZ |-> baselineZ, baselineSound |-> baselineSound,
     lastSoundSpikeTime |-> lastSoundSpikeTime,
     shakeStartTime |-> shakeStartTime,
     lastShakeSampleTime |-> lastShakeSampleTime,
     potentialEarthquake |-> potentialEarthquake,
     alarmEndTime |-> alarmEndTime, lastBlinkTime |-> lastBlinkTime,
     blinkState |-> blinkState, wasInAlarm |-> wasInAlarm,
     buzzer |-> buzzer, red |-> red, green |-> green,
     transition |-> transition, tDetect |-> tDetect, tAlarm |-> tAlarm,
     alarmBranch |-> alarmBranch, entry |-> entry,
     horizontalAccel |-> horizontalAccel, peakHorizontal |-> peakHorizontal,
     sessions |-> sessions, spikeSeen |-> spikeSeen,
     readFailed |-> readFailed, steps |-> steps, lastPayload |-> lastPayload,
     emitted |-> emitted, lastEvent |-> lastEvent,
     posts |-> posts, lastSend |-> lastSend,
     calCommands |-> calCommands]

\* what an iteration of loop() finds when it begins
EntryOf(g) ==
    [now |-> g.now,
     baselineX |-> g.baselineX, baselineY |-> g.baselineY,
     baselineZ |-> g.baselineZ, baselineSound |-> g.baselineSound,
     lastSoundSpikeTime |-> g.lastSoundSpikeTime,
     shakeStartTime |-> g.shakeStartTime,
     lastShakeSampleTime |-> g.lastShakeSampleTime,
     potentialEarthquake |-> g.potentialEarthquake,
     alarmEndTime |-> g.alarmEndTime, lastBlinkTime |-> g.lastBlinkTime,
     blinkState |-> g.blinkState,
     buzzer |-> g.buzzer, red |-> g.red, green |-> g.green,
     alarmBranch |-> g.alarmBranch,
     emitted |-> g.emitted, posts |-> g.posts]

\* lines 132-146: the sample of this iteration and the sound-spike update.
\* t is millis() once readSoundLevel has returned.
Sampler(g, reading, sound) ==
    LET dynX == Abs(reading[1] - g.baselineX)
        dynY == Abs(reading[2] - g.baselineY)
        dynZ == Abs(reading[3] - g.baselineZ)
    IN [dynX |-> dynX, dynY |-> dynY, dynZ |-> dynZ,
        horizontalAccel |-> Sqrt(dynX * dynX + dynY * dynY),
        totalAccel |-> Sqrt(dynX * dynX + dynY * dynY + dynZ * dynZ),
        soundLevel |-> sound,
        t |-> g.now + SoundReadTime,
        spikeTime |-> IF SoundSpike(sound, g.baselineSound)
                      THEN g.now + SoundReadTime ELSE g.lastSoundSpikeTime]

\* lines 149-205: the branch the Shake Detector takes on sample s
Detector(g, s) ==
    LET above == AboveThreshold(s.horizontalAccel)
        starts == above /\ ~g.potentialEarthquake
        startTime == IF starts THEN s.t ELSE g.shakeStartTime
        resolves == above /\ DurationReached(s.t, startTime)
        soundCorrelated == SoundCorrelated(s.t, s.spikeTime)
    IN [above |-> above,
        starts |-> starts,
        startTime |-> startTime,
        resolves |-> resolves,
        soundCorrelated |-> soundCorrelated,
        confirmed |-> resolves /\ ~soundCorrelated,
        ignored |-> resolves /\ soundCorrelated,
        resets |-> ~above /\ g.potentialEarthquake
                          /\ ResetDue(s.t, g.lastShakeSampleTime)]

\* lines 168-180: the SeismicEvent built when the session resolves
SeismicEvent(s, d) ==
    [horizontalAccel |-> s.horizontalAccel, totalAccel |-> s.totalAccel,
     verticalAccel |-> s.dynZ, xAccel |-> s.dynX, yAccel |-> s.dynY,
     zAccel |-> s.dynZ,
     peakGroundAccel |-> PeakAccel(s.totalAccel, s.horizontalAccel),
     soundLevel |-> s.soundLevel, isSoundCorrelated |-> d.soundCorrelated,
     durationMs |-> Elapsed(s.t, d.startTime), timestamp |-> s.t]

\* sendEventToServer, lines 277-291: the JSON document it serializes
Payload(event) ==
    [horizontal_accel |-> event.horizontalAccel,
     total_accel |-> event.totalAccel,
     sound_level |-> event.soundLevel,
     sound_correlated |-> event.isSoundCorrelated,
     timestamp |-> event.timestamp,
     device_id |-> "ESP32_QuakeSense_001",
     vertical_accel |-> event.verticalAccel,
     x_accel |-> event.xAccel,
     y_accel |-> event.yAccel,
     z_accel |-> event.zAccel,
     peak_ground_acceleration |-> event.peakGroundAccel,
     duration_ms |-> event.durationMs]

\* the calls of one iteration of loop() in the order of the source: the
\* terminal branches call sendEventToServer (lines 187, 194) inside the
\* Shake Detector, the sound-correlated one then delay(1000) (line 188)
StepsOf(d) ==
    <<"Sampler", "ShakeDetector">>
    \o (IF d.resolves THEN <<"sendEventToServer">> ELSE <<>>)
    \o (IF d.ignored THEN <<"delay">> ELSE <<>>)
    \o <<"AlarmHandler", "checkSerialInput">>

\* millis() when the Alarm Handler runs: in loop() sendEventToServer and the
\* cooldown come before it (lines 187-188, 194)
AlarmHandlerTime(s, d, net) ==
    IF d.resolves
    THEN s.t + SendTime(net) + CooldownTime(d.soundCorrelated)
    ELSE s.t

\* line 193, or alarmEndTime as it was
EndTimeAfter(g, s, d) == IF d.confirmed THEN ArmedUntil(s.t) ELSE g.alarmEndTime

\* <<lastBlinkTime, blinkState>> as the Shake Detector leaves them
BlinkPhaseAfter(g, s, d) ==
    IF d.confirmed
    THEN BlinkPhaseAfterConfirm(s.t, g.lastBlinkTime, g.blinkState)
    ELSE <<g.lastBlinkTime, g.blinkState>>

\* lines 209-230: the branch the Alarm Handler takes at time t
AlarmHandler(t, endTime, phase) ==
    LET active == AlarmActive(t, endTime)
        flips == active /\ BlinkDue(t, phase[1])
    IN [active |-> active, flips |-> flips,
        lastBlinkTime |-> IF flips THEN t ELSE phase[1],
        blinkState |-> IF flips THEN ~phase[2] ELSE phase[2]]

\* lines 213-229: the outputs the branch a of the Alarm Handler drives; the
\* branch that does not flip writes no pin
PinsAfter(g, a) ==
    IF ~a.active THEN [buzzer |-> FALSE, red |-> FALSE, green |-> TRUE]
    ELSE IF a.flips
         THEN [buzzer |-> a.blinkState, red |-> a.blinkState, green |-> FALSE]
         ELSE [buzzer |-> g.buzzer, red |-> g.red, green |-> g.green]

\* lines 232, 326-331: the baseline when checkSerialInput returns; on "cal"
\* calibrateSensor (line 254) and calibrateSoundSensor (line 261) both run
\* before it does
BaselineAfter(g, in) ==
    [x |-> IF in.cal THEN in.calAccel[1] ELSE g.baselineX,
     y |-> IF in.cal THEN in.calAccel[2] ELSE g.baselineY,
     z |-> IF in.cal THEN in.calAccel[3] ELSE g.baselineZ,
     sound |-> IF in.cal THEN in.calSound ELSE g.baselineSound]

\* the globals when the iteration returns, given the branches it took
LoopResult(g, in, s, d, t2, a) ==
    [now |-> t2 + (IF in.cal THEN CalibrationTime ELSE 0) + LOOP_DELAY,
     \* lines 232, 326-331: checkSerialInput
     baselineX |-> BaselineAfter(g, in).x,
     baselineY |-> BaselineAfter(g, in).y,
     baselineZ |-> BaselineAfter(g, in).z,
     baselineSound |-> BaselineAfter(g, in).sound,
     calCommands |-> IF in.cal THEN g.calCommands + 1 ELSE g.calCommands,
     \* lines 143-146
     lastSoundSpikeTime |-> s.spikeTime,
     \* lines 149-205
     lastShakeSampleTime |-> IF d.above THEN s.t ELSE g.lastShakeSampleTime,
     potentialEarthquake |->
         IF d.resolves THEN SessionAfterSend(in.net).potentialEarthquake
         ELSE IF d.resets THEN FALSE
         ELSE IF d.above THEN TRUE
         ELSE g.potentialEarthquake,
     shakeStartTime |->
         IF d.resolves THEN SessionAfterSend(in.net).shakeStartTime
         ELSE IF d.resets THEN 0
         ELSE d.startTime,
     transition |-> IF d.confirmed THEN "confirmed"
                    ELSE IF d.ignored THEN "ignored"
                    ELSE IF d.resets THEN "reset"
                    ELSE IF d.starts THEN "start"
                    ELSE "none",
     emitted |-> IF d.resolves THEN g.emitted + 1 ELSE g.emitted,
     lastEvent |-> IF d.resolves THEN SeismicEvent(s, d) ELSE g.lastEvent,
     posts |-> IF d.resolves THEN g.posts + PostsMade(in.net) ELSE g.posts,
     lastSend |-> IF d.resolves
                  THEN [posted |-> in.net.wifi,
                        code |-> IF in.net.wifi THEN in.net.code ELSE 0]
                  ELSE g.lastSend,
     alarmEndTime |-> EndTimeAfter(g, s, d),
     \* lines 206-230
     lastBlinkTime |-> a.lastBlinkTime,
     blinkState |-> a.blinkState,
     wasInAlarm |-> IF a.flips THEN a.blinkState ELSE g.wasInAlarm,
     buzzer |-> PinsAfter(g, a).buzzer,
     red |-> PinsAfter(g, a).red,
     green |-> PinsAfter(g, a).green,
     alarmBranch |-> IF ~a.active THEN "safe"
                     ELSE IF a.flips THEN "flip" ELSE "hold",
     tDetect |-> s.t,
     tAlarm |-> t2,
     entry |-> EntryOf(g),
     horizontalAccel |-> s.horizontalAccel,
     peakHorizontal |-> Max(g.peakHorizontal, s.horizontalAccel),
     sessions |-> IF d.starts THEN g.sessions + 1 ELSE g.sessions,
     spikeSeen |-> g.spikeSeen \/ s.soundLevel > g.baselineSound + SOUND_THRESHOLD,
     \* line 133: the value lis.getEvent returns is not read
     readFailed |-> ~in.readOk,
     steps |-> StepsOf(d),
     lastPayload |-> IF d.resolves /\ in.net.wifi
                     THEN Payload(SeismicEvent(s, d)) ELSE g.lastPayload]

LoopAlarm(g, in, s, d, t2) ==
    LoopResult(g, in, s, d, t2,
               AlarmHandler(t2, EndTimeAfter(g, s, d), BlinkPhaseAfter(g, s, d)))

LoopDetect(g, in, s, d) ==
    LoopAlarm(g, in, s, d, AlarmHandlerTime(s, d, in.net))

LoopSample(g, in, s) == LoopDetect(g, in, s, Detector(g, s))

\* line 133: lis.getEvent has returned
Sampled(g, in) == IF in.lag = 0 THEN g ELSE [g EXCEPT !.now = @ + in.lag]

\* loop(), lines 131-234: one whole iteration on globals g with inputs in
LoopStep(g, in) ==
    LoopSample(Sampled(g, in), in, Sampler(Sampled(g, in), in.reading, in.sound))

\* k iterations of loop() in a row that all see the inputs in: the first
\* half of them, then the rest on the globals the first half left
RECURSIVE LoopTimes(_, _, _)
LoopTimes(k, g, in) ==
    IF k = 0 THEN g
    ELSE IF k = 1 THEN LoopStep(g, in)
    ELSE CHOOSE r \in {LoopTimes(k - k \div 2, h, in) :
                           h \in {LoopTimes(k \div 2, g, in)}} : TRUE

\* the globals become g
Becomes(g) ==
    /\ now' = g.now
    /\ baselineX' = g.baselineX /\ baselineY' = g.baselineY
    /\ baselineZ' = g.baselineZ /\ baselineSound' = g.baselineSound
    /\ lastSoundSpikeTime' = g.lastSoundSpikeTime
    /\ shakeStartTime' = g.shakeStartTime
    /\ lastShakeSampleTime' = g.lastShakeSampleTime
    /\ potentialEarthquake' = g.potentialEarthquake
    /\ alarmEndTime' = g.alarmEndTime /\ lastBlinkTime' = g.lastBlinkTime
    /\ blinkState' = g.blinkState /\ wasInAlarm' = g.wasInAlarm
    /\ buzzer' = g.buzzer /\ red' = g.red /\ green' = g.green
    /\ transition' = g.transition /\ tDetect' = g.tDetect /\ tAlarm' = g.tAlarm
    /\ alarmBranch' = g.alarmBranch /\ entry' = g.entry
    /\ horizontalAccel' = g.horizontalAccel /\ peakHorizontal' = g.peakHorizontal
    /\ sessions' = g.sessions /\ spikeSeen' = g.spikeSeen
    /\ readFailed' = g.readFailed /\ steps' = g.steps
    /\ lastPayload' = g.lastPayload
    /\ emitted' = g.emitted /\ lastEvent' = g.lastEvent
    /\ posts' = g.posts /\ lastSend' = g.lastSend
    /\ calCommands' = g.calCommands

----------------------------------------------------------------------------
(* State after power-on: the globals as initialised at lines 39-59, the    *)
(* pins not yet driven                                                     *)

\* the server process before it has loaded its model artifact
NoModel == [version |-> "none"]
NoCall == [stage |-> "free"]
NoFeatures == [device_id |-> ""]

ServerInit ==
    /\ model = NoModel
    /\ calls = [c \in Slots |-> NoCall]
    /\ scratch = [c \in Slots |-> NoFeatures]
    /\ results = {}
    /\ served = 0

\* the Dashboard component as mounted: the useState initial values
null == [id |-> -1]

DashboardInit ==
    /\ earthquakeData = <<>>
    /\ stats = [total |-> 0, today |-> 0, falseAlarms |-> 0, accuracy |-> 0]
    /\ activeAlert = null
    /\ isConnected = FALSE
    /\ lastUpdate = null
    /\ timers = 0
    /\ fetches = 0

\* AITraining.jsx lines 7-8: both lists start empty
TrainingInit ==
    /\ unlabeledData = <<>>
    /\ labeledData = <<>>
    /\ labelEntry = [op |-> "none", unlabeled |-> 0, labeled |-> 0]
    /\ trainOps = 0

NoEntry ==
    [now |-> 0,
     baselineX |-> 0, baselineY |-> 0, baselineZ |-> 0, baselineSound |-> 0,
     lastSoundSpikeTime |-> 0, shakeStartTime |-> 0,
     lastShakeSampleTime |-> 0, potentialEarthquake |-> FALSE,
     alarmEndTime |-> 0, lastBlinkTime |-> 0, blinkState |-> FALSE,
     buzzer |-> FALSE, red |-> FALSE, green |-> FALSE,
     alarmBranch |-> "none", emitted |-> 0, posts |-> 0]

Init ==
    /\ pc = "setup"
    /\ now = 0
    /\ baselineX = 0 /\ baselineY = 0 /\ baselineZ = 0 /\ baselineSound = 0
    /\ lastSoundSpikeTime = 0
    /\ shakeStartTime = 0 /\ lastShakeSampleTime = 0
    /\ potentialEarthquake = FALSE
    /\ alarmEndTime = 0 /\ lastBlinkTime = 0
    /\ blinkState = FALSE /\ wasInAlarm = FALSE
    /\ buzzer = FALSE /\ red = FALSE /\ green = FALSE
    /\ transition = "none"
    /\ tDetect = 0 /\ tAlarm = 0
    /\ alarmBranch = "none"
    /\ entry = NoEntry
    /\ horizontalAccel = 0 /\ peakHorizontal = 0 /\ sessions = 0
    /\ spikeSeen = FALSE
    /\ readFailed = FALSE /\ steps = <<>>
    /\ lastPayload = NoPayload
    /\ emitted = 0 /\ lastEvent = NoEvent
    /\ posts = 0 /\ lastSend = NoSend
    /\ iterations = 0 /\ calCommands = 0 /\ holds = 0
    /\ ServerInit
    /\ DashboardInit
    /\ TrainingInit

\* lines 121-122: the baseline calibrateSensor (line 254) and
\* calibrateSoundSensor (line 261) leave from their 40-sample means
Calibrated(accel, snd) ==
    [x |-> accel[1], y |-> accel[2], z |-> accel[3], sound |-> snd]

\* setup(), lines 89-126, with the accelerometer found: safe pattern on the
\* pins, connectWiFi (attempts x 500 ms), delay(1000), both calibrations
SetupArmed ==
    /\ pc = "setup"
    /\ \E attempts \in BootAttempts, accel \in CalAccelMeans, snd \in CalSoundMeans :
          /\ now' = now + attempts * WIFI_ATTEMPT_DELAY + SETUP_SETTLE_DELAY
                        + CalibrationTime
          /\ baselineX' = Calibrated(accel, snd).x
          /\ baselineY' = Calibrated(accel, snd).y
          /\ baselineZ' = Calibrated(accel, snd).z
          /\ baselineSound' = Calibrated(accel, snd).sound
    /\ buzzer' = FALSE /\ red' = FALSE /\ green' = TRUE
    /\ pc' = "loop"
    /\ UNCHANGED <<lastSoundSpikeTime,
                   shakeStartTime, lastShakeSampleTime, potentialEarthquake,
                   alarmEndTime, lastBlinkTime, blinkState, wasInAlarm,
                   transition, tDetect, tAlarm, alarmBranch, entry,
                   horizontalAccel, peakHorizontal, sessions, spikeSeen,
                   readFailed, steps, lastPayload,
                   emitted, lastEvent, posts, lastSend,
                   iterations, calCommands, holds>>
    /\ UNCHANGED <<serverVars, dashVars, trainVars>>

\* setup() with lis.begin() failing (lines 111-114): the pins were set to
\* the safe pattern and WiFi was tried before while (1) { delay(100); }
SetupHalt ==
    /\ pc = "setup"
    /\ \E attempts \in BootAttempts :
          now' = now + attempts * WIFI_ATTEMPT_DELAY
    /\ buzzer' = FALSE /\ red' = FALSE /\ green' = TRUE
    /\ pc' = "halt"
    /\ UNCHANGED <<baselineX, baselineY, baselineZ, baselineSound,
                   lastSoundSpikeTime,
                   shakeStartTime, lastShakeSampleTime, potentialEarthquake,
                   alarmEndTime, lastBlinkTime, blinkState, wasInAlarm,
                   transition, tDetect, tAlarm, alarmBranch, entry,
                   horizontalAccel, peakHorizontal, sessions, spikeSeen,
                   readFailed, steps, lastPayload,
                   emitted, lastEvent, posts, lastSend,
                   iterations, calCommands, holds>>
    /\ UNCHANGED <<serverVars, dashVars, trainVars>>

\* line 113: where control is after a turn of while (1), whose condition
\* is the constant 1
HaltStays == "halt"

\* one turn of while (1) { delay(100); } (line 113)
HaltSpin ==
    /\ pc = "halt"
    /\ iterations < MaxIterations
    /\ iterations' = iterations + 1
    /\ now' = now + HALT_DELAY
    /\ pc' = HaltStays
    /\ UNCHANGED <<baselineX, baselineY, baselineZ, baselineSound,
                   lastSoundSpikeTime,
                   shakeStartTime, lastShakeSampleTime, potentialEarthquake,
                   alarmEndTime, lastBlinkTime, blinkState, wasInAlarm,
                   buzzer, red, green,
                   transition, tDetect, tAlarm, alarmBranch, entry,
                   horizontalAccel, peakHorizontal, sessions, spikeSeen,
                   readFailed, steps, lastPayload,
                   emitted, lastEvent, posts, lastSend,
                   calCommands, holds>>
    /\ UNCHANGED <<serverVars, dashVars, trainVars>>

----------------------------------------------------------------------------
(* loop() under the inputs of the environment.                             *)
(*   reading, sound : what lis.getEvent and readSoundLevel return          *)
(*   readOk : lis.getEvent delivered a sample; if not, reading is what it  *)
(*       left in the local event, which loop() uses all the same           *)
(*   net : what sendEventToServer meets (read only when an event is sent)  *)
(*   cal : a "cal" line is waiting on Serial; calAccel, calSound : the     *)
(*       means the recalibration then computes                             *)

Inputs(readings, sounds, commands, reads, lags) ==
    [reading : readings, sound : sounds, net : {NoWifi}, readOk : reads,
     lag : lags,
     cal : commands, calAccel : RecalAccelMeans, calSound : RecalSoundMeans]

\* k iterations of loop() have run and left the globals g
Ran(k, g) ==
    /\ Becomes(g)
    /\ iterations' = iterations + k
    /\ pc' = pc
    /\ UNCHANGED <<serverVars, dashVars, trainVars>>

\* k iterations of loop() that see the same inputs.  quiet is what they
\* leave when WiFi is down: the network is read only by an iteration that
\* sends an event, so it matters only if quiet holds a new event.  Over the
\* long hold WiFi is down.
RunOn(k, in, quiet) ==
    IF quiet.emitted = emitted \/ k = LongHold
    THEN Ran(k, quiet)
    ELSE \E net \in Networks :
            Ran(k, LoopTimes(k, Globals, [in EXCEPT !.net = net]))

Run(k, in) == RunOn(k, in, LoopTimes(k, Globals, in))

\* one iteration of loop(), any sample, no command on Serial
Loop ==
    /\ pc = "loop"
    /\ iterations < MaxIterations
    /\ \E in \in Inputs(Readings, SoundLevels, {FALSE}, {TRUE}, {0}) : Run(1, in)
    /\ holds' = holds

\* the environment holds its inputs over k iterations of loop(); a "cal"
\* command is a single line, read by one iteration, and so is a failed
\* read; the long hold is a stretch without sound spikes
Hold ==
    /\ pc = "loop"
    /\ holds < MaxHolds
    /\ \E k \in HoldLengths,
          in \in Inputs(HoldReadings, HoldSounds, BOOLEAN, BOOLEAN, {0}) :
          /\ in.cal => (k = 1 /\ calCommands < MaxCalCommands)
          /\ ~in.readOk => k = 1
          /\ (k = LongHold) => ~SoundSpike(in.sound, baselineSound)
          /\ Run(k, in)
    /\ holds' = holds + 1

Next == SetupArmed \/ SetupHalt \/ HaltSpin \/ Loop

Spec == Init /\ [][Next]_vars

NextHold == SetupArmed \/ SetupHalt \/ HaltSpin \/ Hold

SpecHold == Init /\ [][NextHold]_vars

\* the environment holds its inputs over one iteration of loop() or over
\* the iterations that lead to one of the two timeouts, and the loop runs
\* at either pace
SlowHold ==
    /\ pc = "loop"
    /\ holds < MaxHolds
    /\ \E k \in {1} \cup EdgeHolds,
          in \in Inputs(HoldReadings, HoldSounds, {FALSE}, {TRUE}, Lags) :
          Run(k, in)
    /\ holds' = holds + 1

\* how long before the counter wraps a long quiet stretch ends
WrapLeads == {100, 5000}

\* at rest, in a quiet room, with nothing else happening
QuietInput ==
    [reading |-> RestReading, sound |-> 500, net |-> NoWifi, readOk |-> TRUE,
     lag |-> 0, cal |-> FALSE, calAccel |-> TiltedReading, calSound |-> 400]

\* the device stays at rest in a quiet room until shortly before millis()
\* wraps: with no session open and the alarm over, the iterations of
\* loop() of that stretch only see the clock advance; the last of them
\* is run here
LongIdle ==
    /\ pc = "loop"
    /\ now >= 0
    /\ ~potentialEarthquake
    /\ ~AlarmActive(now, alarmEndTime)
    /\ \E lead \in WrapLeads :
          LET last == LoopStep([Globals EXCEPT !.now = -lead - LoopPeriod],
                               QuietInput)
          IN  /\ last.transition = "none"
              /\ last.alarmBranch = "safe"
              /\ last.lastSoundSpikeTime = lastSoundSpikeTime
              /\ Ran(1, last)
    /\ holds' = holds

NextWrap == SetupArmed \/ LongIdle \/ SlowHold

SpecWrap == Init /\ [][NextWrap]_vars

NextSlow == SetupArmed \/ SetupHalt \/ HaltSpin \/ SlowHold

SpecSlow == Init /\ [][NextSlow]_vars

\* the ground shakes on every sample and no sound spike occurs; the
\* network and the pace of loop() vary
ShakeTick ==
    /\ pc = "loop"
    /\ iterations < MaxShakeTicks
    /\ \E in \in Inputs({ShakeReading}, {500}, {FALSE}, {TRUE}, Lags) : Run(1, in)
    /\ holds' = holds

\* the device has idled since boot when the shaking begins
IdleFirst == sessions = 0 /\ LongIdle

NextShake == SetupArmed \/ IdleFirst \/ ShakeTick

SpecShake == Init /\ [][NextShake]_vars

\* iterations an open session can still need: each takes LoopPeriod at least
DrainTicks == (MIN_SHAKE_DURATION + SHAKE_RESET_TIMEOUT) \div LoopPeriod + 1

\* loop() as the Arduino core calls it, again and again: past the budget of
\* iterations it keeps running while a session is open
LoopCalled ==
    /\ pc = "loop"
    /\ \/ iterations < MaxLiveTicks
       \/ potentialEarthquake /\ iterations < MaxLiveTicks + DrainTicks

LiveLoop ==
    /\ LoopCalled
    /\ \E in \in Inputs(HoldReadings, HoldSounds, {FALSE}, {TRUE}, {0}) :
          Run(1, in)
    /\ holds' = holds

NextLive == SetupArmed \/ SetupHalt \/ HaltSpin \/ LiveLoop

\* a step of LiveLoop, told by the iteration it counts: some input always
\* lets LiveLoop run when loop() is called
LoopRuns == LoopCalled /\ iterations' = iterations + 1

\* the core never stops calling loop(): weak fairness of the iteration
SpecLive == Init /\ [][NextLive]_vars /\ WF_iterations(LoopRuns)

----------------------------------------------------------------------------
(* The server side: Feature Extractor and Classifier.  Their code          *)
(* (ml/feature_extractor.py, quake.py) is not among the sources; this      *)
(* part follows sections 4.6, 4.7 and 5 of the specification.  The server  *)
(* handles requests concurrently, one handler per slot; a handler          *)
(* extracts the features when it receives the event, stages them in its    *)
(* feature buffer and scores them against the model artifact loaded at     *)
(* process start.                                                          *)

\* the JSON documents of two resolved sessions, as sendEventToServer
\* serializes them: a horizontal shake in silence and a knock on the case
QuakeEvent ==
    Payload([horizontalAccel |-> 100, totalAccel |-> 100, verticalAccel |-> 0,
             xAccel |-> 80, yAccel |-> 60, zAccel |-> 0,
             peakGroundAccel |-> 120, soundLevel |-> 500,
             isSoundCorrelated |-> FALSE, durationMs |-> 260,
             timestamp |-> 3870])

KnockEvent ==
    Payload([horizontalAccel |-> 100, totalAccel |-> 141, verticalAccel |-> 100,
             xAccel |-> 80, yAccel |-> 60, zAccel |-> 100,
             peakGroundAccel |-> 141, soundLevel |-> 2600,
             isSoundCorrelated |-> TRUE, durationMs |-> 260,
             timestamp |-> 3870])

RawEvents == {QuakeEvent, KnockEvent}

\* raw sample windows: vertical (v) and horizontal (h) amplitude per sample
NoWindow == <<>>          \* the request carries no window
PThenS == <<[v |-> 30, h |-> 5], [v |-> 5, h |-> 40]>>
SThenP == <<[v |-> 5, h |-> 40], [v |-> 30, h |-> 5]>>
Windows == {NoWindow, PThenS, SThenP}

\* amplitude from which a sample counts as a pulse
PULSE_AMPLITUDE == 20

\* section 4.6: the frequency fields come from the magnitude spectrum of
\* the window, or from the fallback estimate, which is a function of the
\* event's duration and total acceleration
SpectralEstimate(window) ==
    [dominant |-> <<"spectrum", "dominant", window>>,
     mean |-> <<"spectrum", "mean", window>>]

FallbackEstimate(event) ==
    [dominant |-> <<"fallback", "dominant", event.duration_ms, event.total_accel>>,
     mean |-> <<"fallback", "mean", event.duration_ms, event.total_accel>>]

\* the samples the wave heuristic looks at: the window, or the event's own
\* vertical and horizontal acceleration when there is none
SamplesOf(event, window) ==
    IF window = NoWindow
    THEN <<[v |-> event.vertical_accel, h |-> event.horizontal_accel]>>
    ELSE window

Magnitude(sample) == Sqrt(sample.v * sample.v + sample.h * sample.h)

RECURSIVE SumOf(_, _)
SumOf(samples, square) ==
    IF samples = <<>> THEN 0
    ELSE (IF square THEN Magnitude(Head(samples)) * Magnitude(Head(samples))
                    ELSE Magnitude(Head(samples)))
         + SumOf(Tail(samples), square)

\* section 4.6: variance of the acceleration magnitude over the window
TemporalVariance(samples) ==
    (Len(samples) * SumOf(samples, TRUE)
        - SumOf(samples, FALSE) * SumOf(samples, FALSE))
    \div (Len(samples) * Len(samples))

\* section 4.6: a vertical-dominant pulse is the P-wave surrogate, a
\* horizontal-dominant one the S-wave surrogate
PPulse(sample) == sample.v >= PULSE_AMPLITUDE /\ sample.v > sample.h
SPulse(sample) == sample.h >= PULSE_AMPLITUDE /\ sample.h > sample.v

PWaveDetected(samples) == \E i \in 1..Len(samples) : PPulse(samples[i])
SWaveDetected(samples) == \E i \in 1..Len(samples) : SPulse(samples[i])

\* the P pulse comes before every S pulse
InOrder(samples) ==
    \E i \in 1..Len(samples) :
        /\ PPulse(samples[i])
        /\ \A j \in 1..Len(samples) : SPulse(samples[j]) => i < j

\* only a lone P pulse makes a single peak
WavePatternPOnly(p, s, ordered) ==
    IF p /\ s THEN (IF ordered THEN "p_then_s" ELSE "simultaneous")
    ELSE IF p THEN "single_peak" ELSE "unknown"

\* section 4.6: waveArrivalPattern
WavePattern(p, s, ordered) ==
    IF p /\ s THEN (IF ordered THEN "p_then_s" ELSE "simultaneous")
    ELSE IF p \/ s THEN "single_peak" ELSE "unknown"

\* section 3: the FeatureVector, the 12 fields of the event and 6 derived
Features(event, frequency, samples) ==
    [horizontal_accel |-> event.horizontal_accel,
     total_accel |-> event.total_accel,
     vertical_accel |-> event.vertical_accel,
     x_accel |-> event.x_accel,
     y_accel |-> event.y_accel,
     z_accel |-> event.z_accel,
     peak_ground_acceleration |-> event.peak_ground_acceleration,
     sound_level |-> event.sound_level,
     sound_correlated |-> event.sound_correlated,
     duration_ms |-> event.duration_ms,
     timestamp |-> event.timestamp,
     device_id |-> event.device_id,
     frequency_dominant |-> frequency.dominant,
     frequency_mean |-> frequency.mean,
     temporal_variance |-> TemporalVariance(samples),
     wave_arrival_pattern |-> WavePattern(PWaveDetected(samples),
                                          SWaveDetected(samples),
                                          InOrder(samples)),
     p_wave_detected |-> PWaveDetected(samples),
     s_wave_detected |-> SWaveDetected(samples)]

\* what a request gets when extraction fails
ExtractFailed == [error |-> "extract"]

\* the fallback path takes the duration in seconds
ExtractRescaled(event, window) ==
    IF window = NoWindow
    THEN Features([event EXCEPT !.duration_ms = @ \div 1000],
                  FallbackEstimate(event), SamplesOf(event, window))
    ELSE Features(event, SpectralEstimate(window), SamplesOf(event, window))

\* the spectral analysis is run on whatever window there is
ExtractNeedsWindow(event, window) ==
    IF window = NoWindow
    THEN ExtractFailed
    ELSE Features(event, SpectralEstimate(window), SamplesOf(event, window))

\* section 4.6: extract(RawSeismicEvent, optional rawWindow)
Extract(event, window) ==
    Features(event,
             IF window = NoWindow THEN FallbackEstimate(event)
                                  ELSE SpectralEstimate(window),
             SamplesOf(event, window))

\* section 4.7: the model artifacts of the two scoring policies
SupervisedModel ==
    [family |-> "supervised", version |-> "rf-1", boundary |-> 50,
     bias |-> 50, soundWeight |-> 40, waveWeight |-> 30]
AnomalyModel ==
    [family |-> "anomaly", version |-> "if-1", boundary |-> 0,
     bias |-> -10, soundWeight |-> 20, waveWeight |-> 30]
Artifacts == {SupervisedModel, AnomalyModel}

\* the score of a feature vector under an artifact
Score(m, fv) ==
    m.bias - (IF fv.sound_correlated THEN m.soundWeight ELSE 0)
           + (IF fv.wave_arrival_pattern = "p_then_s" THEN m.waveWeight ELSE 0)

Clamp(x) == IF x < 0 THEN 0 ELSE IF x > 100 THEN 100 ELSE x

\* section 4.7: supervised policy, a class label with a probability-derived
\* confidence; anomaly-score policy, a binary decision with the distance of
\* the score from the decision boundary as confidence
Classify(m, fv) ==
    LET score == Score(m, fv)
        genuine == score >= m.boundary
    IN  [label |-> IF genuine THEN "genuine_earthquake" ELSE "false_alarm",
         confidence |-> IF m.family = "supervised"
                        THEN (IF genuine THEN Clamp(score) ELSE 100 - Clamp(score))
                        ELSE Clamp(Abs(score - m.boundary)),
         reasoning |-> IF fv.sound_correlated THEN "sound_correlated"
                       ELSE "wave_arrival_pattern",
         modelVersion |-> m.version]

\* all handlers stage their features in one buffer
SharedScratch(c) == 1

\* section 4.7: no shared mutable state, each handler has its own buffer
ScratchOf(c) == c

\* process start: exactly one model artifact is loaded
LoadModel ==
    /\ model = NoModel
    /\ \E m \in Artifacts : model' = m
    /\ UNCHANGED <<calls, scratch, results, served>>
    /\ UNCHANGED <<edgeVars, dashVars, trainVars>>

\* a handler receives an event, with or without a window, and extracts
Receive(c) ==
    /\ model # NoModel
    /\ served < MaxServed
    /\ calls[c].stage \in {"free", "failed"}
    /\ \E event \in RawEvents, window \in Windows :
          calls' = [calls EXCEPT ![c] =
                      IF Extract(event, window) = ExtractFailed
                      THEN [stage |-> "failed", event |-> event,
                            window |-> window]
                      ELSE [stage |-> "extracted", event |-> event,
                            window |-> window,
                            features |-> Extract(event, window)]]
    /\ served' = served + 1
    /\ UNCHANGED <<model, scratch, results>>
    /\ UNCHANGED <<edgeVars, dashVars, trainVars>>

\* the classifier takes the features of the request into its buffer
Stage(c) ==
    /\ calls[c].stage = "extracted"
    /\ scratch' = [scratch EXCEPT ![ScratchOf(c)] = calls[c].features]
    /\ calls' = [calls EXCEPT ![c].stage = "staged"]
    /\ UNCHANGED <<model, results, served>>
    /\ UNCHANGED <<edgeVars, dashVars, trainVars>>

\* it scores the buffer against the artifact, returns the result and
\* releases the buffer: nothing is carried over to the next request
Respond(c) ==
    /\ calls[c].stage = "staged"
    /\ scratch[ScratchOf(c)] # NoFeatures
    /\ results' = results \cup
          {[features |-> calls[c].features,
            result |-> Classify(model, scratch[ScratchOf(c)]),
            overlapped |-> \E d \in Slots \ {c} :
                              /\ calls[d].stage = "staged"
                              /\ calls[d].features # calls[c].features]}
    /\ calls' = [calls EXCEPT ![c] = NoCall]
    /\ scratch' = [scratch EXCEPT ![ScratchOf(c)] = NoFeatures]
    /\ UNCHANGED <<model, served>>
    /\ UNCHANGED <<edgeVars, dashVars, trainVars>>

NextServer ==
    \/ LoadModel
    \/ \E c \in Slots : Receive(c)
    \/ \E c \in Slots : Stage(c)
    \/ \E c \in Slots : Respond(c)

SpecServer == Init /\ [][NextServer]_vars

----------------------------------------------------------------------------
(* The Dashboard component (src/unnamed/part_004).  Its state is the       *)
(* useState values; fetchEarthquakeData runs at mount and every 5 s, and   *)
(* what follows its awaits runs as one step, as do a setTimeout callback   *)
(* and the dismiss button of the banner.  Magnitudes are in 0.01 m/s^2.    *)

\* line 77: magnitude from which the latest event raises the banner
ALERT_MAGNITUDE == 200

\* JSON values of the backend's events
Absent == [type |-> "absent"]
Number(n) == [type |-> "number", value |-> n]

\* events of GET /api/events: horizontal_accel below, at the alert
\* magnitude or missing; either classification; stamped today or earlier
BackendEvents ==
    [horizontal_accel : {Absent, Number(150), Number(ALERT_MAGNITUDE)},
     ai_classification : {"genuine_earthquake", "false_alarm"},
     today : BOOLEAN]

\* data.events of a response, latest first
Responses ==
    {<<>>} \cup {<<e>> : e \in BackendEvents}
           \cup {<<e, f>> : e, f \in BackendEvents}

\* line 41: parseFloat(event.horizontal_accel) || 0
ParseFloatOrZero(json) ==
    IF json.type = "number" /\ json.value # 0 THEN json.value ELSE 0

\* lines 34-53: the transformation of one event of the response
Transform(event, index) ==
    [id |-> index,
     today |-> event.today,
     magnitude |-> ParseFloatOrZero(event.horizontal_accel),
     falseAlarm |-> event.ai_classification = "false_alarm",
     rawData |-> event]

TransformedData(events) ==
    [i \in 1..Len(events) |-> Transform(events[i], i - 1)]

\* lines 60-73: the stats; accuracy in tenths of a percent
StatsOf(data) ==
    LET total == Len(data)
        falseAlarms == Cardinality({i \in 1..Len(data) : data[i].falseAlarm})
    IN  [total |-> total,
         today |-> Cardinality({i \in 1..Len(data) : data[i].today}),
         falseAlarms |-> falseAlarms,
         accuracy |-> IF total > 0
                      THEN (2000 * (total - falseAlarms) + total) \div (2 * total)
                      ELSE 0]

\* the banner is raised for any strong event
AlertWorthyAnyClass(data) ==
    Len(data) > 0 /\ data[1].magnitude >= ALERT_MAGNITUDE

\* lines 76-77: latestEvent && latestEvent.magnitude >= 2.0 &&
\* !latestEvent.falseAlarm
AlertWorthy(data) ==
    Len(data) > 0 /\ data[1].magnitude >= ALERT_MAGNITUDE /\ ~data[1].falseAlarm

\* fetchEarthquakeData with an ok response, lines 27-80
FetchOk ==
    /\ fetches < MaxFetches
    /\ \E events \in Responses :
          LET data == TransformedData(events) IN
          /\ AlertWorthy(data) => timers < MaxTimers
          /\ isConnected' = TRUE
          /\ earthquakeData' = data
          /\ lastUpdate' = [at |-> fetches + 1]
          /\ stats' = StatsOf(data)
          /\ IF AlertWorthy(data)
             THEN activeAlert' = data[1] /\ timers' = timers + 1
             ELSE UNCHANGED <<activeAlert, timers>>
    /\ fetches' = fetches + 1
    /\ UNCHANGED <<edgeVars, serverVars, trainVars>>

\* fetchEarthquakeData with a response that is not ok, or throwing,
\* lines 81-88
FetchFails ==
    /\ fetches < MaxFetches
    /\ isConnected' = FALSE
    /\ fetches' = fetches + 1
    /\ UNCHANGED <<earthquakeData, stats, activeAlert, lastUpdate, timers>>
    /\ UNCHANGED <<edgeVars, serverVars, trainVars>>

\* line 79: a callback of setTimeout(() => setActiveAlert(null), 10000)
TimerFires ==
    /\ timers > 0
    /\ timers' = timers - 1
    /\ activeAlert' = null
    /\ UNCHANGED <<earthquakeData, stats, isConnected, lastUpdate, fetches>>
    /\ UNCHANGED <<edgeVars, serverVars, trainVars>>

\* line 135: onDismiss of the banner, which is rendered while activeAlert
\* is set
Dismiss ==
    /\ activeAlert # null
    /\ activeAlert' = null
    /\ UNCHANGED <<earthquakeData, stats, isConnected, lastUpdate, timers,
                   fetches>>
    /\ UNCHANGED <<edgeVars, serverVars, trainVars>>

NextDashboard == FetchOk \/ FetchFails \/ TimerFires \/ Dismiss

SpecDashboard == Init /\ [][NextDashboard]_vars

----------------------------------------------------------------------------
(* The AI Training view (src/frontend/src/components/AITraining.jsx): the  *)
(* events fetched for labelling and the labelled samples kept for          *)
(* POST /api/train-model.                                                  *)

MIN_TRAINING_SAMPLES == 5     \* line 50: labeledData.length < 5
RENDERED_EVENTS == 5          \* line 269: earthquakeData.slice(0, 5)

\* a row of GET /api/events as the firmware's payload fills it; timestamp
\* is the device's millis(), which starts again at every boot
StoredEvent(id, timestamp, accel) ==
    [id |-> id, horizontal_accel |-> accel, total_accel |-> accel,
     sound_level |-> 500, sound_correlated |-> FALSE,
     timestamp |-> timestamp, device_id |-> "ESP32_QuakeSense_001"]

\* three rows: two sent at the same millis() after two boots, one later
StoredEvents ==
    {StoredEvent(1, 3870, 100), StoredEvent(2, 3870, 92),
     StoredEvent(3, 5230, 100)}

\* data.events of a response: rows of the table, the latest first
TrainingResponses ==
    {r \in UNION {[1..n -> StoredEvents] : n \in 0..Cardinality(StoredEvents)} :
        \A i, j \in DOMAIN r : i < j => r[i].id > r[j].id}

Labels == {"genuine", "false_alarm"}

\* lines 31-41: the sample labelEvent builds
LabeledEvent(event, label) ==
    [event |-> [horizontal_accel |-> event.horizontal_accel,
                total_accel |-> event.total_accel,
                sound_level |-> event.sound_level,
                sound_correlated |-> event.sound_correlated,
                timestamp |-> event.timestamp,
                device_id |-> event.device_id],
     label |-> label]

\* line 44: earthquakeData.filter(e => e.timestamp !== event.timestamp)
WithoutLabeled(events, event) ==
    SelectSeq(events, LAMBDA e : e.timestamp # event.timestamp)

\* the lengths a handler finds
Found(op) ==
    [op |-> op, unlabeled |-> Len(unlabeledData), labeled |-> Len(labeledData)]

\* lines 18-28: fetchUnlabeledData with an ok response (on mount, line 15,
\* and from the Refresh button, line 261)
FetchUnlabeledData ==
    /\ trainOps < MaxTrainOps
    /\ \E events \in TrainingResponses : unlabeledData' = events
    /\ labelEntry' = Found("fetch")
    /\ trainOps' = trainOps + 1
    /\ UNCHANGED labeledData
    /\ UNCHANGED <<edgeVars, serverVars, dashVars>>

\* lines 30-47: labelEvent, from the buttons of a rendered event (lines
\* 269, 292, 299)
LabelEvent ==
    /\ trainOps < MaxTrainOps
    /\ \E i \in 1..Len(unlabeledData), label \in Labels :
          /\ i <= RENDERED_EVENTS
          /\ labeledData' = Append(labeledData,
                                   LabeledEvent(unlabeledData[i], label))
          /\ unlabeledData' = WithoutLabeled(unlabeledData, unlabeledData[i])
    /\ labelEntry' = Found("label")
    /\ trainOps' = trainOps + 1
    /\ UNCHANGED <<edgeVars, serverVars, dashVars>>

\* lines 49-74: trainModel with an ok response
TrainModelOk ==
    /\ trainOps < MaxTrainOps
    /\ Len(labeledData) >= MIN_TRAINING_SAMPLES
    /\ labeledData' = <<>>
    /\ labelEntry' = Found("train")
    /\ trainOps' = trainOps + 1
    /\ UNCHANGED unlabeledData
    /\ UNCHANGED <<edgeVars, serverVars, dashVars>>

\* lines 243-244: the Clear button, enabled while there are samples
ClearLabeled ==
    /\ trainOps < MaxTrainOps
    /\ Len(labeledData) # 0
    /\ labeledData' = <<>>
    /\ labelEntry' = Found("clear")
    /\ trainOps' = trainOps + 1
    /\ UNCHANGED unlabeledData
    /\ UNCHANGED <<edgeVars, serverVars, dashVars>>

NextTraining == FetchUnlabeledData \/ LabelEvent \/ TrainModelOk \/ ClearLabeled

SpecTraining == Init /\ [][NextTraining]_vars

----------------------------------------------------------------------------
(* Properties.  They read the record of the last iteration of loop():      *)
(* entry is what it found, horizontalAccel what it sampled, transition,    *)
(* tDetect, alarmBranch and tAlarm what its two halves did and when.       *)

Terminal == {"confirmed", "ignored"}

\* the last iteration found a session open / left the detector Idle
WasAnalyzing == entry.potentialEarthquake
Idle == ~potentialEarthquake /\ shakeStartTime = 0

\* the last iteration sampled shaking / the age of the session it found
Shaking == horizontalAccel > SHAKE_THRESHOLD_MS2
SessionAge == tDetect - entry.shakeStartTime

\* the last iteration found the alarm sounding
WasAlarming == entry.alarmBranch \in {"flip", "hold"}

SafePattern == ~buzzer /\ ~red /\ green

\* C1: as long as no iteration has sampled a horizontalAccel above
\* SHAKE_THRESHOLD_MS2, the detector is Idle after every iteration, no
\* session has been started, no event has been emitted and the alarm has
\* never been armed (the outputs show the safe pattern).
C1_BelowThresholdStaysIdle ==
    (pc = "loop" /\ peakHorizontal <= SHAKE_THRESHOLD_MS2)
        => /\ Idle
           /\ sessions = 0
           /\ transition = "none"
           /\ emitted = 0 /\ posts = 0
           /\ alarmEndTime = 0
           /\ alarmBranch \in {"none", "safe"}
           /\ SafePattern

\* a run of several iterations, one of them exactly at the threshold, none above
C1_Witness ==
    /\ pc = "loop" /\ iterations >= SessionHold
    /\ peakHorizontal = SHAKE_THRESHOLD_MS2
    /\ Idle /\ emitted = 0

\* C2: an iteration that finds a session open, samples shaking, sees
\* now - shakeStartTime > MIN_SHAKE_DURATION and no sound spike within
\* SOUND_CORRELATION_WINDOW emits exactly one event, with
\* isSoundCorrelated = false and durationMs = now - shakeStartTime, takes
\* the Confirmed branch and arms the alarm until now + ALARM_DURATION.
C2_ContinuousShakeConfirmed ==
    (/\ pc = "loop" /\ WasAnalyzing /\ Shaking
     /\ SessionAge > MIN_SHAKE_DURATION
     /\ tDetect - lastSoundSpikeTime >= SOUND_CORRELATION_WINDOW)
        => /\ transition = "confirmed"
           /\ emitted = entry.emitted + 1
           /\ lastEvent.isSoundCorrelated = FALSE
           /\ lastEvent.durationMs = SessionAge
           /\ lastEvent.timestamp = tDetect
           /\ alarmEndTime = tDetect + ALARM_DURATION
           /\ tAlarm < alarmEndTime => alarmBranch \in {"flip", "hold"}

\* the first event of a run, confirmed at the first iteration past
\* MIN_SHAKE_DURATION
C2_Witness ==
    /\ transition = "confirmed" /\ emitted = 1
    /\ SessionAge > MIN_SHAKE_DURATION
    /\ SessionAge <= MIN_SHAKE_DURATION + LoopPeriod
    /\ lastSoundSpikeTime = 0

\* C3: an iteration that resolves a session less than
\* SOUND_CORRELATION_WINDOW after a sound spike emits an event with
\* isSoundCorrelated = true and leaves alarmEndTime as it found it.
C3_SoundCorrelatedIgnored ==
    (/\ pc = "loop" /\ WasAnalyzing /\ Shaking
     /\ SessionAge > MIN_SHAKE_DURATION
     /\ tDetect - lastSoundSpikeTime < SOUND_CORRELATION_WINDOW)
        => /\ transition = "ignored"
           /\ emitted = entry.emitted + 1
           /\ lastEvent.isSoundCorrelated = TRUE
           /\ alarmEndTime = entry.alarmEndTime

\* a session resolved after a spike heard in an earlier iteration
C3_Witness ==
    /\ transition = "ignored"
    /\ lastSoundSpikeTime < tDetect
    /\ lastEvent.isSoundCorrelated

\* C4: the number of events changes in an iteration if and only if that
\* iteration takes a terminal branch out of an open session; it then grows
\* by one and the session is closed; a debounce reset emits nothing; and
\* there are never more events than sessions started and since closed.
C4_EventIffTerminalDecision ==
    /\ (emitted # entry.emitted) <=> (transition \in Terminal)
    /\ transition \in Terminal
           => emitted = entry.emitted + 1 /\ WasAnalyzing /\ Idle
    /\ transition = "reset"
           => emitted = entry.emitted /\ WasAnalyzing /\ Idle
    /\ emitted + (IF potentialEarthquake THEN 1 ELSE 0) <= sessions

\* a session closed by the debounce reset, with no event for it
C4_Witness ==
    /\ transition = "reset"
    /\ sessions = 1 /\ emitted = 0

\* C5: an iteration that finds a session open, samples no shaking and sees
\* more than SHAKE_RESET_TIMEOUT since the last shaking sample discards the
\* session: the detector is Idle again and nothing is emitted, sent or
\* armed; up to SHAKE_RESET_TIMEOUT the session stays open.
C5_DebounceResetDiscards ==
    /\ (/\ pc = "loop" /\ WasAnalyzing /\ ~Shaking
        /\ tDetect - entry.lastShakeSampleTime > SHAKE_RESET_TIMEOUT)
           => /\ transition = "reset"
              /\ Idle
              /\ emitted = entry.emitted /\ posts = entry.posts
              /\ alarmEndTime = entry.alarmEndTime
    /\ (/\ pc = "loop" /\ WasAnalyzing /\ ~Shaking
        /\ tDetect - entry.lastShakeSampleTime <= SHAKE_RESET_TIMEOUT)
           => /\ transition = "none"
              /\ potentialEarthquake
              /\ shakeStartTime = entry.shakeStartTime

\* a session younger than MIN_SHAKE_DURATION discarded at the first
\* iteration past SHAKE_RESET_TIMEOUT
C5_Witness ==
    /\ transition = "reset"
    /\ SessionAge <= MIN_SHAKE_DURATION
    /\ tDetect - entry.lastShakeSampleTime <= SHAKE_RESET_TIMEOUT + LoopPeriod
    /\ Idle /\ emitted = 0

\* C6: while the alarm sounds, blinkState flips every BLINK_INTERVAL in
\* every execution of loop(): a flip comes less than one loop period after
\* it fell due; and whenever the Alarm Handler runs at or after
\* alarmEndTime the outputs are the safe pattern.
C6_BlinkEveryInterval ==
    /\ (pc = "loop" /\ WasAlarming /\ alarmBranch = "flip")
           => tAlarm - entry.lastBlinkTime < BLINK_INTERVAL + LoopPeriod
    /\ (pc = "loop" /\ tAlarm >= alarmEndTime) => SafePattern

\* C7: in an iteration that finds the alarm sounding and in which the
\* Shake Detector starts, resets or resolves a session without any POST,
\* the Alarm Handler is not delayed: a flip comes less than one loop period
\* after it fell due, and the safe pattern less than one loop period after
\* alarmEndTime.
C7_DetectorDoesNotDelayAlarm ==
    (pc = "loop" /\ WasAlarming /\ transition # "none" /\ posts = entry.posts)
        => /\ alarmBranch = "flip"
                  => tAlarm - entry.lastBlinkTime < BLINK_INTERVAL + LoopPeriod
           /\ alarmBranch = "safe"
                  => tAlarm - alarmEndTime < LoopPeriod

\* C8: a Confirmed branch taken while the alarm sounds sets alarmEndTime to
\* now + ALARM_DURATION, not earlier than it was, and does not restart the
\* blink phase: the Alarm Handler of that iteration flips blinkState only
\* if BLINK_INTERVAL has passed since the lastBlinkTime the iteration
\* found, and otherwise leaves blinkState and lastBlinkTime as found.
C8_RetriggerExtendsAlarm ==
    (pc = "loop" /\ transition = "confirmed" /\ tDetect < entry.alarmEndTime)
        => /\ alarmEndTime = tDetect + ALARM_DURATION
           /\ alarmEndTime >= entry.alarmEndTime
           /\ alarmBranch \in {"flip", "hold"}
           /\ alarmBranch = "hold"
                  => /\ lastBlinkTime = entry.lastBlinkTime
                     /\ blinkState = entry.blinkState
           /\ alarmBranch = "flip"
                  => /\ tAlarm - entry.lastBlinkTime >= BLINK_INTERVAL
                     /\ lastBlinkTime = tAlarm
                     /\ blinkState = ~entry.blinkState

\* a second Confirmed while the alarm of the first sounds, between two flips
C8_Witness ==
    /\ transition = "confirmed" /\ emitted = 2
    /\ tDetect < entry.alarmEndTime
    /\ alarmEndTime > entry.alarmEndTime
    /\ alarmBranch = "hold"
    /\ lastBlinkTime = entry.lastBlinkTime /\ blinkState = TRUE

\* C9: in an iteration that takes the Confirmed branch the alarm is armed
\* until now + ALARM_DURATION and its outputs are driven at the time of the
\* confirmation, whatever sendEventToServer meets and however long it takes.
C9_AlarmIndependentOfTransmission ==
    (pc = "loop" /\ transition = "confirmed")
        => /\ alarmEndTime = tDetect + ALARM_DURATION
           /\ alarmBranch \in {"flip", "hold"}
           /\ tAlarm = tDetect

\* C10: an event is handed to http.POST at most once, in the iteration
\* that emits it and in no later one, so an event that was not delivered
\* is dropped; and a terminal branch leaves the detector Idle whatever
\* sendEventToServer met.
C10_FailedSendDropped ==
    /\ posts <= emitted
    /\ (posts # entry.posts) => transition \in Terminal
    /\ transition \in Terminal
           => /\ posts = entry.posts + (IF lastSend.posted THEN 1 ELSE 0)
              /\ Idle
    /\ transition \notin Terminal => posts = entry.posts

\* a second event, delivered, after a first one that was dropped
C10_Witness ==
    /\ transition \in Terminal /\ emitted = 2
    /\ posts = 1 /\ lastSend.posted /\ lastSend.code = 200
    /\ Idle

\* what setup() leaves when it never gets past lis.begin(): no baseline
\* measured, no iteration of loop() run, no session, event or POST, alarm
\* never armed
NeverRan ==
    /\ baselineX = 0 /\ baselineY = 0 /\ baselineZ = 0 /\ baselineSound = 0
    /\ tDetect = 0 /\ tAlarm = 0
    /\ transition = "none" /\ alarmBranch = "none"
    /\ sessions = 0 /\ emitted = 0 /\ posts = 0
    /\ alarmEndTime = 0

\* C11: once the accelerometer was not found the sketch never leaves the
\* halt loop, and every state in it is one in which no calibration and no
\* iteration of loop() has run, no event was emitted and the alarm was
\* never armed.
C11_HaltIsForGood ==
    [][/\ pc = "halt" => pc' = "halt"
       /\ pc' = "halt" => NeverRan']_vars

\* several turns of the halt loop after the failed lis.begin()
C11_Witness ==
    /\ pc = "halt" /\ iterations >= 3
    /\ now >= 3 * HALT_DELAY
    /\ NeverRan

\* the indicator outputs <<buzzer, red LED, green LED>>, and the patterns
\* loop() writes to them: lines 227-229, 215-217 and 219-223.  The Shake
\* Detector writes no pin, so an open session shows whichever of them the
\* Alarm Handler last wrote.
Pins == <<buzzer, red, green>>
SafePins == <<FALSE, FALSE, TRUE>>
AlarmOnPins == <<TRUE, TRUE, FALSE>>
AlarmOffPins == <<FALSE, FALSE, FALSE>>
NormalPatterns == {SafePins, AlarmOnPins, AlarmOffPins}

\* C12: in the halt loop the indicator outputs show a pattern that loop()
\* never shows (neither the safe pattern nor the alarm On or Off pattern),
\* while loop() shows only those.
C12_HaltPatternDistinct ==
    /\ pc = "loop" => Pins \in NormalPatterns
    /\ pc = "halt" => Pins \notin NormalPatterns

\* C13: an iteration in which lis.getEvent delivered no sample is skipped:
\* it takes no branch of the Shake Detector, leaves potentialEarthquake,
\* shakeStartTime and lastShakeSampleTime as it found them and emits
\* nothing.
C13_FailedReadSkipsTick ==
    (pc = "loop" /\ readFailed)
        => /\ transition = "none"
           /\ potentialEarthquake = entry.potentialEarthquake
           /\ shakeStartTime = entry.shakeStartTime
           /\ lastShakeSampleTime = entry.lastShakeSampleTime
           /\ emitted = entry.emitted /\ posts = entry.posts

\* the baselines a whole calibration can leave: the three axes and the
\* sound level of the startup calibration, or those of a recalibration
WholeBaselines ==
    {<<a[1], a[2], a[3], snd>> : a \in CalAccelMeans, snd \in CalSoundMeans}
    \cup {<<a[1], a[2], a[3], snd>> : a \in RecalAccelMeans, snd \in RecalSoundMeans}

\* the baseline the last iteration computed its sample from
EntryBaseline ==
    <<entry.baselineX, entry.baselineY, entry.baselineZ, entry.baselineSound>>

\* C14: every iteration of loop() computes its accelerations and its
\* sound-spike test from the four baseline components of one calibration,
\* never from some of a recalibration and some of the one before, and
\* leaves such a baseline to the next iteration.
C14_RecalibrationAtomic ==
    (pc = "loop" /\ iterations > 0)
        => /\ EntryBaseline \in WholeBaselines
           /\ <<baselineX, baselineY, baselineZ, baselineSound>> \in WholeBaselines

\* an iteration that ran on the baseline of a recalibration and sampled the
\* board at rest against it
C14_Witness ==
    /\ pc = "loop" /\ calCommands = 1
    /\ EntryBaseline \in {<<a[1], a[2], a[3], snd>> :
                             a \in RecalAccelMeans, snd \in RecalSoundMeans}
    /\ horizontalAccel = Abs(RestReading[1] - TiltedReading[1])

\* C15: the peakGroundAccel of every emitted event is the larger of the
\* totalAccel and of 1.2 times the horizontalAccel the same event carries,
\* which are those of the iteration that emitted it.
C15_PeakGroundAccel ==
    /\ emitted > 0
           => lastEvent.peakGroundAccel
                 = Max(lastEvent.totalAccel,
                       lastEvent.horizontalAccel + lastEvent.horizontalAccel \div 5)
    /\ transition \in Terminal => lastEvent.horizontalAccel = horizontalAccel

\* an event whose peak is 1.2 times its horizontalAccel, above its totalAccel
C15_Witness ==
    /\ transition \in Terminal
    /\ lastEvent.peakGroundAccel > lastEvent.totalAccel
    /\ 5 * lastEvent.peakGroundAccel = 6 * lastEvent.horizontalAccel

ShakeInput ==
    [reading |-> ShakeReading, sound |-> 500, net |-> NoWifi, readOk |-> TRUE,
     lag |-> 0,
     cal |-> FALSE, calAccel |-> TiltedReading, calSound |-> 400]

\* C17: an iteration that takes a terminal branch leaves the detector Idle;
\* after a sound-correlated resolution no iteration runs, and so no session
\* starts, until COOLDOWN_DELAY has passed since the resolution; after a
\* Confirmed one the very next iteration, if it samples shaking, starts a
\* new session.
C17_CooldownAfterIgnored ==
    /\ transition \in Terminal => Idle
    /\ (emitted > 0 /\ lastEvent.isSoundCorrelated /\ transition \notin Terminal)
           => tDetect - lastEvent.timestamp >= COOLDOWN_DELAY
    /\ (emitted > 0 /\ lastEvent.isSoundCorrelated /\ potentialEarthquake)
           => shakeStartTime - lastEvent.timestamp >= COOLDOWN_DELAY
    /\ transition = "ignored" => now - tDetect >= COOLDOWN_DELAY
    /\ transition = "confirmed"
           => /\ LoopStep(Globals, ShakeInput).transition = "start"
              /\ LoopStep(Globals, ShakeInput).shakeStartTime = now + SoundReadTime

\* a session started by the first iteration after a sound-correlated
\* resolution
C17_Witness ==
    /\ transition = "start" /\ emitted = 1
    /\ lastEvent.isSoundCorrelated
    /\ shakeStartTime - lastEvent.timestamp < COOLDOWN_DELAY + 2 * LoopPeriod

\* call a comes before call b in the last iteration
Before(a, b) ==
    \E i, j \in 1..Len(steps) : i < j /\ steps[i] = a /\ steps[j] = b

\* C18: in every iteration the Sampler runs before the Shake Detector and
\* the Shake Detector before the Alarm Handler, and when a session resolves
\* the Alarm Handler has run before the event is transmitted.
C18_TickOrder ==
    (pc = "loop" /\ iterations > 0)
        => /\ Before("Sampler", "ShakeDetector")
           /\ Before("ShakeDetector", "AlarmHandler")
           /\ transition \in Terminal
                  => Before("AlarmHandler", "sendEventToServer")

\* everything one iteration of loop() can meet, the sample read promptly
TickInputs ==
    [reading : Readings, sound : SoundLevels, net : Networks,
     readOk : BOOLEAN, cal : BOOLEAN, lag : {0},
     calAccel : RecalAccelMeans, calSound : RecalSoundMeans]

\* the longest an iteration blocks: readSoundLevel, one POST, the cooldown,
\* one recalibration and the closing delay
MaxSendTime == CHOOSE m \in {n.latency : n \in Networks} :
                   \A n \in Networks : n.latency <= m
MaxTickTime ==
    SoundReadTime + MaxSendTime + COOLDOWN_DELAY + CalibrationTime + LOOP_DELAY

StartupBaselines ==
    {<<a[1], a[2], a[3], snd>> : a \in CalAccelMeans, snd \in CalSoundMeans}

\* C20: while setup() runs no iteration of loop() has run and no session
\* has started; loop() is entered with a measured baseline, not earlier
\* than the settle delay and both calibrations take; and the first
\* iteration computes its sample from the startup calibration.
C20_CalibrationBeforeLoop ==
    /\ pc = "setup"
           => /\ iterations = 0 /\ steps = <<>> /\ tDetect = 0
              /\ sessions = 0 /\ ~potentialEarthquake
    /\ pc = "loop"
           => /\ <<baselineX, baselineY, baselineZ, baselineSound>> \in WholeBaselines
              /\ now >= SETUP_SETTLE_DELAY + CalibrationTime
    /\ (pc = "loop" /\ iterations > 0)
           => /\ entry.now >= SETUP_SETTLE_DELAY + CalibrationTime
              /\ shakeStartTime = 0
                    \/ shakeStartTime > SETUP_SETTLE_DELAY + CalibrationTime
    /\ (pc = "loop" /\ iterations = 1) => EntryBaseline \in StartupBaselines

\* the first iteration of loop(), starting a session on the startup baseline
C20_Witness ==
    /\ pc = "loop" /\ iterations = 1
    /\ transition = "start" /\ sessions = 1
    /\ EntryBaseline \in StartupBaselines
    /\ shakeStartTime = entry.now + SoundReadTime

\* an iteration of loop() on a shaking sample at every sound level, with and
\* without a "cal" command
SoundInputs ==
    {in \in TickInputs :
        in.reading = ShakeReading /\ in.net = NoWifi /\ in.readOk}

\* C21: an iteration sets lastSoundSpikeTime to its millis() if the sound
\* level it read is above baselineSound + SOUND_THRESHOLD and leaves it
\* alone otherwise, from every state of the loop and at every sound level; the
\* iteration that led to the state did one or the other; and an event's
\* isSoundCorrelated is the test of its timestamp - lastSoundSpikeTime
\* against SOUND_CORRELATION_WINDOW.
C21_SoundSpikeTracker ==
    pc = "loop"
        => /\ \A in \in SoundInputs :
                 LoopStep(Globals, in).lastSoundSpikeTime
                    = IF in.sound > baselineSound + SOUND_THRESHOLD
                      THEN now + SoundReadTime
                      ELSE lastSoundSpikeTime
           /\ iterations > 0
                  => lastSoundSpikeTime \in {entry.lastSoundSpikeTime, tDetect}
           /\ transition \in Terminal
                  => lastEvent.isSoundCorrelated
                        = (lastEvent.timestamp - lastSoundSpikeTime
                              < SOUND_CORRELATION_WINDOW)

\* a spike recorded by an iteration that found an older one
C21_Witness ==
    /\ pc = "loop" /\ lastSoundSpikeTime = tDetect
    /\ entry.lastSoundSpikeTime > 0
    /\ entry.lastSoundSpikeTime < tDetect

\* C27: an event is emitted only by an iteration whose horizontalAccel is
\* above SHAKE_THRESHOLD_MS2; its durationMs is that iteration's millis()
\* less the start of its session and is more than MIN_SHAKE_DURATION; an
\* iteration that finds its session exactly MIN_SHAKE_DURATION old does
\* not resolve it.
C27_EventOnResolvedShake ==
    /\ transition \in Terminal
          => /\ Shaking
             /\ lastEvent.durationMs = tDetect - entry.shakeStartTime
             /\ lastEvent.durationMs > MIN_SHAKE_DURATION
    /\ emitted > 0 => lastEvent.durationMs > MIN_SHAKE_DURATION
    /\ (WasAnalyzing /\ Shaking /\ SessionAge = MIN_SHAKE_DURATION)
          => /\ transition \notin Terminal
             /\ potentialEarthquake
             /\ emitted = entry.emitted

\* the event of a session that the iteration before found exactly
\* MIN_SHAKE_DURATION old
C27_Witness ==
    /\ transition \in Terminal
    /\ WasAnalyzing
    /\ lastEvent.durationMs = MIN_SHAKE_DURATION + LoopPeriod

\* C28: an iteration that finds a session open, samples horizontalAccel at
\* or below the threshold and is no more than SHAKE_RESET_TIMEOUT after
\* the last sample above it, exactly SHAKE_RESET_TIMEOUT included, leaves
\* the session as it was and emits nothing.
C28_DebounceHoldsSession ==
    (/\ pc = "loop" /\ iterations > 0
     /\ WasAnalyzing /\ ~Shaking
     /\ tDetect - entry.lastShakeSampleTime <= SHAKE_RESET_TIMEOUT)
        => /\ potentialEarthquake
           /\ shakeStartTime = entry.shakeStartTime
           /\ lastShakeSampleTime = entry.lastShakeSampleTime
           /\ emitted = entry.emitted
           /\ transition = "none"

\* a session kept by an iteration exactly SHAKE_RESET_TIMEOUT after the
\* last sample above the threshold
C28_Witness ==
    /\ pc = "loop" /\ WasAnalyzing /\ ~Shaking
    /\ tDetect - entry.lastShakeSampleTime = SHAKE_RESET_TIMEOUT
    /\ potentialEarthquake

\* C29: an iteration whose Alarm Handler finds the alarm over (millis() at
\* or past alarmEndTime) leaves blinkState off, so that the first phase of
\* the next alarm is the one with the buzzer and the red LED on.
C29_AlarmEndResetsBlink ==
    (pc = "loop" /\ iterations > 0 /\ alarmBranch = "safe") => ~blinkState

\* C30: an event is sound-correlated only if some iteration has read a
\* sound spike and the last one did so less than SOUND_CORRELATION_WINDOW
\* before the event's timestamp; a device that has read no spike since
\* startup emits no sound-correlated event.
C30_CorrelationNeedsSpike ==
    /\ (emitted > 0 /\ lastEvent.isSoundCorrelated) => spikeSeen
    /\ (transition \in Terminal /\ lastEvent.isSoundCorrelated)
          => /\ lastEvent.timestamp - lastSoundSpikeTime >= 0
             /\ lastEvent.timestamp - lastSoundSpikeTime < SOUND_CORRELATION_WINDOW

\* C31: an event reflects sustained motion: the sample that resolves the
\* session comes no more than SHAKE_RESET_TIMEOUT after the session's
\* previous sample above the threshold, also when loop() was blocked in
\* between.
C31_EventReflectsSustainedMotion ==
    (pc = "loop" /\ transition \in Terminal)
        => tDetect - entry.lastShakeSampleTime <= SHAKE_RESET_TIMEOUT

\* C32: every session resolves: while loop() keeps running, an open
\* session is eventually closed (confirmed, ignored or reset).
C32_SessionResolves == potentialEarthquake ~> ~potentialEarthquake

\* a session that stayed open over an iteration has been closed
C32_Witness ==
    /\ pc = "loop" /\ WasAnalyzing /\ ~potentialEarthquake
    /\ transition \in Terminal \cup {"reset"}
    /\ iterations > MaxLiveTicks

\* C34: a Confirmed transition arms the alarm for ALARM_DURATION at any
\* value of the 32-bit millis() counter: an Alarm Handler that runs less
\* than ALARM_DURATION after the confirmation finds the alarm active, also
\* when tDetect + ALARM_DURATION wraps.
C34_AlarmActiveAcrossWrap ==
    (pc = "loop" /\ transition = "confirmed"
                 /\ Elapsed(tAlarm, tDetect) < ALARM_DURATION)
        => alarmBranch \in {"flip", "hold"}

\* C33: while the ground shakes on every sample and no sound spike occurs,
\* the alarm does not return to idle once the first session is confirmed:
\* every Alarm Handler finds the alarm active, and every further session is
\* confirmed before the alarmEndTime it found.
C33_AlarmHeldWhileShaking ==
    (pc = "loop" /\ emitted >= 1 /\ ~spikeSeen)
        => /\ alarmBranch \in {"flip", "hold"}
           /\ transition \in Terminal \cup {"reset"} => transition = "confirmed"
           /\ (transition = "confirmed" /\ entry.emitted >= 1)
                  => Elapsed(entry.alarmEndTime, tDetect) \in 1..ALARM_DURATION

\* C35: the indicator outputs are consistent in every state: while the
\* buzzer sounds the red LED is on and the green LED off, and while the
\* green LED is on the buzzer is silent and the red LED off.
C35_OutputsConsistent ==
    /\ buzzer => (red /\ ~green)
    /\ green => (~buzzer /\ ~red)

\* the first flip of an alarm: from the safe pattern to buzzer and red
C35_Witness ==
    /\ pc = "loop" /\ alarmBranch = "flip"
    /\ entry.green /\ ~entry.buzzer
    /\ buzzer /\ red /\ ~green

\* a <= b as the sketch compares two unsigned long values
AtMost(a, b) == ~Below(b, a)

\* b is a, or comes after a, by less than 2^31 ms on the wrapping counter
Follows(b, a) == Elapsed(b, a) < FarPast

----------------------------------------------------------------------------
(* Properties of the server side.  A request whose stage is "extracted"    *)
(* or "staged" holds the FeatureVector extract returned for it.            *)

EdgeFields ==
    {"horizontal_accel", "total_accel", "vertical_accel", "x_accel",
     "y_accel", "z_accel", "peak_ground_acceleration", "sound_level",
     "sound_correlated", "duration_ms", "timestamp", "device_id"}

DerivedFields ==
    {"frequency_dominant", "frequency_mean", "temporal_variance",
     "wave_arrival_pattern", "p_wave_detected", "s_wave_detected"}

Extracted(c) == calls[c].stage \in {"extracted", "staged"}

\* C22: the FeatureVector of every request carries the twelve fields of
\* the request's RawSeismicEvent with their values, whether the request
\* had a raw sample window or not.
C22_EdgeFieldsPassThrough ==
    \A c \in Slots :
        Extracted(c)
            => \A f \in EdgeFields : calls[c].features[f] = calls[c].event[f]

\* one request extracted without a window beside one extracted with one
C22_Witness ==
    \E c, d \in Slots :
        /\ Extracted(c) /\ calls[c].window = NoWindow
        /\ Extracted(d) /\ calls[d].window # NoWindow

\* C23: in every FeatureVector waveArrivalPattern follows from the wave
\* flags: unknown iff neither wave is detected, single_peak iff exactly
\* one is, and with both detected p_then_s iff the P pulse comes before
\* the S pulse and simultaneous otherwise.
C23_WavePatternFromFlags ==
    \A c \in Slots :
        Extracted(c)
            => LET fv == calls[c].features
                   p == fv.p_wave_detected
                   s == fv.s_wave_detected
                   ordered == InOrder(SamplesOf(calls[c].event, calls[c].window))
               IN  /\ fv.wave_arrival_pattern = "unknown" <=> ~p /\ ~s
                   /\ fv.wave_arrival_pattern = "single_peak" <=> p # s
                   /\ fv.wave_arrival_pattern = "p_then_s"
                          <=> p /\ s /\ ordered
                   /\ fv.wave_arrival_pattern = "simultaneous"
                          <=> p /\ s /\ ~ordered

\* a lone S wave beside a P wave followed by an S wave
C23_Witness ==
    \E c, d \in Slots :
        /\ Extracted(c) /\ Extracted(d)
        /\ ~calls[c].features.p_wave_detected
        /\ calls[c].features.s_wave_detected
        /\ calls[c].features.wave_arrival_pattern = "single_peak"
        /\ calls[d].features.wave_arrival_pattern = "p_then_s"

\* C24: a request without a raw sample window does not fail: it has a
\* FeatureVector with all eighteen fields, whose frequency fields are the
\* fallback estimate from the event's duration and total acceleration.
C24_NoWindowFallback ==
    \A c \in Slots :
        (calls[c].stage # "free" /\ calls[c].window = NoWindow)
            => /\ Extracted(c)
               /\ DOMAIN calls[c].features = EdgeFields \cup DerivedFields
               /\ calls[c].features.frequency_dominant
                     = <<"fallback", "dominant", calls[c].event.duration_ms,
                         calls[c].event.total_accel>>
               /\ calls[c].features.frequency_mean
                     = <<"fallback", "mean", calls[c].event.duration_ms,
                         calls[c].event.total_accel>>

\* a request without a window that has reached the classifier
C24_Witness ==
    \E c \in Slots : calls[c].stage = "staged" /\ calls[c].window = NoWindow

\* C25: under the artifact the process loaded, two classifications of the
\* same FeatureVector return the same label and the same confidence,
\* whatever was classified between them or at the same time.
C25_ClassifyDeterministic ==
    \A r, q \in results :
        r.features = q.features
            => /\ r.result.label = q.result.label
               /\ r.result.confidence = q.result.confidence

\* the same FeatureVector classified twice, once while another handler had
\* staged a FeatureVector that classifies differently
C25_Witness ==
    \E r, q \in results :
        /\ r.features = q.features
        /\ r.overlapped /\ ~q.overlapped
        /\ \E other \in results : other.result.label # r.result.label

----------------------------------------------------------------------------
(* Properties of the dashboard *)

\* C26: whenever activeAlert is set, the event it holds has a magnitude of
\* at least 2.0 and is not classified as a false alarm, after any sequence
\* of polls, timer expiries and dismissals.
C26_BannerOnlyForActiveQuakes ==
    activeAlert # null
        => /\ activeAlert.magnitude >= 200
           /\ ~activeAlert.falseAlarm
           /\ activeAlert.rawData.horizontal_accel = Number(activeAlert.magnitude)
           /\ activeAlert.rawData.ai_classification # "false_alarm"

\* the banner of the second alert, after the timer of the first expired,
\* still up after a later poll whose latest event is a strong false alarm
C26_Witness ==
    /\ activeAlert # null
    /\ fetches >= 3 /\ timers = 1
    /\ Len(earthquakeData) > 0
    /\ earthquakeData[1].falseAlarm
    /\ earthquakeData[1].magnitude >= ALERT_MAGNITUDE

----------------------------------------------------------------------------
(* Properties of the AI Training view.                                     *)

\* C37: labelEvent moves exactly one event: it leaves labeledData one
\* longer and the list of unlabelled events one shorter than it found
\* them, so the two lengths add up to what they did before.
C37_LabelMovesOneEvent ==
    labelEntry.op = "label"
        => /\ Len(labeledData) = labelEntry.labeled + 1
           /\ Len(unlabeledData) = labelEntry.unlabeled - 1
           /\ Len(labeledData) + Len(unlabeledData)
                  = labelEntry.labeled + labelEntry.unlabeled

====
